---- MODULE Spec2Model ----
(***************************************************************************)
(* A model of the App component of src/src/App.tsx (the AI code review     *)
(* tool): the credential, the file intake and the analysis client, as the  *)
(* event handlers and asynchronous continuations that change React state.  *)
(*                                                                         *)
(* Conventions.  A JavaScript string that the code takes apart (a file     *)
(* name, an extension) is a sequence of one-character strings; a string    *)
(* the code only stores or compares is a TLA+ string, '' being "".  A      *)
(* message built by a template literal is the sequence of its fragments,   *)
(* '' being <<>>.  null is Null (<<>>) and a non-null object x is          *)
(* Some(x) (<<x>>).  Each action is one event handler or one continuation  *)
(* together with the render and the effects React runs before the next     *)
(* event is dispatched.                                                    *)
(***************************************************************************)
EXTENDS Integers, Sequences, FiniteSets, Bags, TLC

VARIABLES
    apiKey,          \* useState<string>('')                     App.tsx:96
    storage,         \* localStorage entry 'deepseekApiKey'      App.tsx:117
    file,            \* useState<File | null>(null)              App.tsx:100
    fileContent,     \* useState<string>('')                     App.tsx:101
    fileLanguage,    \* useState<string>('')                     App.tsx:102
    fileError,       \* useState<string>('')                     App.tsx:104
    isAnalyzing,     \* useState<boolean>(false)                 App.tsx:107
    analysisResults, \* useState<AnalysisResults | null>(null)   App.tsx:108
    analysisError,   \* useState<string>('')                     App.tsx:109
    readers,         \* FileReaders whose readAsText is pending  App.tsx:152
    requests,        \* analyzeCode invocations suspended at an await App.tsx:236
    analyzedContent, \* history: the fileContent sent in the request whose reply
                     \* analysisResults was parsed from ('' when it is null)
    download,        \* the link element downloadResults has clicked last App.tsx:358
    lastResultText   \* history: data.choices[0].message.content of the reply
                     \* the last analysis ended on (null when it had none) App.tsx:298

vars == <<apiKey, storage, file, fileContent, fileLanguage, fileError,
          isAnalyzing, analysisResults, analysisError, readers, requests,
          analyzedContent, lastResultText, download>>

fileVars == <<file, fileContent, fileLanguage, fileError, readers>>
analysisVars == <<isAnalyzing, analysisResults, analysisError, requests,
                  analyzedContent, lastResultText>>
keyVars == <<apiKey, storage>>

Null == <<>>
Some(x) == <<x>>

-----------------------------------------------------------------------------
(* Bounds of the model *)

\* FileReaders that may be pending at once
MaxReaders == 2
\* analyzeCode invocations that may be suspended at once
MaxRequests == 2

-----------------------------------------------------------------------------
(* Strings *)

\* The lower-case letter of each upper-case letter
LowerCase ==
    [A |-> "a", B |-> "b", C |-> "c", D |-> "d", E |-> "e", F |-> "f", G |-> "g",
     H |-> "h", I |-> "i", J |-> "j", K |-> "k", L |-> "l", M |-> "m", N |-> "n",
     O |-> "o", P |-> "p", Q |-> "q", R |-> "r", S |-> "s", T |-> "t", U |-> "u",
     V |-> "v", W |-> "w", X |-> "x", Y |-> "y", Z |-> "z"]

\* String.prototype.toLowerCase
toLowerCase(s) ==
    [i \in 1..Len(s) |-> IF s[i] \in DOMAIN LowerCase THEN LowerCase[s[i]] ELSE s[i]]

\* String.prototype.split with a one-character separator: the parts between
\* the separators, in order (one part, the string itself, when there is none)
RECURSIVE split(_, _)
split(s, sep) ==
    IF \A i \in 1..Len(s) : s[i] # sep
    THEN <<s>>
    ELSE LET k == CHOOSE i \in 1..Len(s) :
                      s[i] = sep /\ \A j \in 1..(i - 1) : s[j] # sep
         IN  <<SubSeq(s, 1, k - 1)>> \o split(SubSeq(s, k + 1, Len(s)), sep)

\* Array.prototype.pop as an expression: the last element
pop(a) == a[Len(a)]

\* Array.prototype.includes
includes(a, x) == \E i \in 1..Len(a) : a[i] = x

\* Array.prototype.join: the elements with sep between them
RECURSIVE join(_, _)
join(a, sep) ==
    IF Len(a) = 0 THEN <<>>
    ELSE IF Len(a) = 1 THEN a[1]
    ELSE a[1] \o sep \o join(Tail(a), sep)

-----------------------------------------------------------------------------
(* Constants of the program *)

\* The table as its entries <<key, label>> in source order (Object.keys order)
SUPPORTED_EXTENSIONS ==
    << <<<<".","j","s">>, "JavaScript">>,
       <<<<".","t","s">>, "TypeScript">>,
       <<<<".","j","s","x">>, "React JSX">>,
       <<<<".","t","s","x">>, "React TSX">>,
       <<<<".","p","y">>, "Python">>,
       <<<<".","j","a","v","a">>, "Java">>,
       <<<<".","c","p","p">>, "C++">>,
       <<<<".","c">>, "C">>,
       <<<<".","g","o">>, "Go">>,
       <<<<".","r","b">>, "Ruby">>,
       <<<<".","p","h","p">>, "PHP">>,
       <<<<".","h","t","m","l">>, "HTML">>,
       <<<<".","c","s","s">>, "CSS">>,
       <<<<".","s","c","s","s">>, "SCSS">>,
       <<<<".","j","s","o","n">>, "JSON">>,
       <<<<".","m","d">>, "Markdown">>,
       <<<<".","r","s">>, "Rust">>,
       <<<<".","s","w","i","f","t">>, "Swift">>,
       <<<<".","k","t">>, "Kotlin">>,
       <<<<".","c","s">>, "C#">> >>

\* Object.keys(SUPPORTED_EXTENSIONS)
ObjectKeys == [i \in 1..Len(SUPPORTED_EXTENSIONS) |-> SUPPORTED_EXTENSIONS[i][1]]

\* SUPPORTED_EXTENSIONS[key] || 'Unknown'
LanguageOf(key) ==
    IF includes(ObjectKeys, key)
    THEN SUPPORTED_EXTENSIONS[CHOOSE i \in 1..Len(SUPPORTED_EXTENSIONS) :
                                  SUPPORTED_EXTENSIONS[i][1] = key][2]
    ELSE "Unknown"

MAX_FILE_SIZE == 5 * 1024 * 1024

StorageKey == "deepseekApiKey"

SizeErrorMessage == <<"File size exceeds the maximum limit of 5MB">>
UnsupportedMessage ==
    <<"Unsupported file type. Supported types: ">> \o join(ObjectKeys, <<",", " ">>)
ReadErrorMessage == <<"Error reading file">>

MissingKeyMessage == <<"Please enter your Deepseek API key">>
MissingFileMessage == <<"Please upload a file to analyze">>
ParseErrorMessage == <<"Error parsing analysis results. Please try again.">>
\* `Error analyzing code: ${error instanceof Error ? error.message : 'Unknown error'}`
AnalyzeErrorMessage(message) == <<"Error analyzing code: ">> \o message
\* `API error: ${response.status} ${response.statusText}`
ApiErrorMessage(response) ==
    <<"API error: ", ToString(response.status), " ", response.statusText>>

-----------------------------------------------------------------------------
(* Inputs: what the user and the environment can supply *)

\* Credentials the user can type or paste into the input
Keys == {"sk-abc", "sk-xyz"}

\* A File: its name, its size in bytes and the text readAsText decodes it to
File(name, size, text) == [name |-> name, size |-> size, text |-> text]

Files ==
    { File(<<"a",".","j","s">>, 1024, "const a = 1"),
      File(<<"B",".","P","Y">>, MAX_FILE_SIZE, "print(1)"),
      File(<<"c">>, 0, ""),
      File(<<"b","i","g",".","j","s">>, MAX_FILE_SIZE + 1, "big"),
      File(<<"a",".","j","s",".","t","x","t">>, 10, "notes"),
      File(<<"m","k">>, 10, "all:"),
      File(<<"a",".">>, 10, "dot"),
      File(<<"x",".","e","x","e">>, MAX_FILE_SIZE + 1, "MZ") }

\* How a fetch can settle: rejected (no response), or resolved with a response
Response(status, statusText) ==
    [kind |-> "response", status |-> status, statusText |-> statusText]
FetchOutcomes ==
    { [kind |-> "reject", message |-> <<"Failed to fetch">>],
      Response(200, "OK"),
      Response(401, "Unauthorized"),
      Response(500, "Internal Server Error") }

\* Mutant of ok: only server errors are not ok
okBelow500(response) == response.status >= 200 /\ response.status < 500

\* Response.ok: the status is in the range 200-299
ok(response) == response.status >= 200 /\ response.status <= 299

\* Reply texts as sequences of tokens.  The two fences of a code block labeled
\* json are one token each (a backquote is written ' here)
FenceOpen == "'''json\n"
FenceClose == "\n'''"
ReplyTexts ==
    { <<FenceOpen, "{", "\"issues\":[]", "}", FenceClose>>,
      <<"Here is my review.">>,
      <<"Review:", "{", "\"issues\":[1]", "}", "Done.">>,
      <<"Use", "{", "braces", "}">>,
      <<"Was", "{", "\"issues\":[1]", "}", "now", FenceOpen, "{", "\"issues\":[]", "}",
        FenceClose, "Bye">>,
      <<"{", "\"issues\":[]", "}", "where", "{", "}", "is empty">> }

\* How response.json() can settle: rejected (the body is not JSON), or resolved
\* with data that has choices[0].message.content or lacks it
BodyOutcomes ==
    { [kind |-> "invalid", message |-> <<"Unexpected token < in JSON">>],
      [kind |-> "data", envelope |-> FALSE] }
    \cup { [kind |-> "data", envelope |-> TRUE, content |-> t] : t \in ReplyTexts }

-----------------------------------------------------------------------------
(* Reply parsing (App.tsx:298-301) *)

\* resultText.match(/```json\n([\s\S]*?)\n```/): the match [whole, group 1] from
\* the first opening fence to the nearest closing fence after it, or Null
matchFenced(t) ==
    LET opens == {i \in 1..Len(t) : t[i] = FenceOpen /\
                     \E j \in (i + 1)..Len(t) : t[j] = FenceClose}
    IN  IF opens = {} THEN Null
        ELSE LET i == CHOOSE x \in opens : \A y \in opens : x <= y
                 j == CHOOSE x \in (i + 1)..Len(t) :
                          t[x] = FenceClose /\
                          \A y \in (i + 1)..(x - 1) : t[y] # FenceClose
             IN  Some(<<SubSeq(t, i, j), SubSeq(t, i + 1, j - 1)>>)

\* resultText.match(/{[\s\S]*}/): greedy, from the first "{" to the last "}"
matchBraces(t) ==
    LET opens == {i \in 1..Len(t) : t[i] = "{" /\
                     \E j \in (i + 1)..Len(t) : t[j] = "}"}
    IN  IF opens = {} THEN Null
        ELSE LET i == CHOOSE x \in opens : \A y \in opens : x <= y
                 j == CHOOSE x \in (i + 1)..Len(t) :
                          t[x] = "}" /\ \A y \in (x + 1)..Len(t) : t[y] # "}"
             IN  Some(<<SubSeq(t, i, j)>>)

\* Mutant of jsonContent: the brace span is tried before the fenced block
jsonContentBracesFirst(resultText) ==
    LET braces == matchBraces(resultText)
        jsonMatch == IF braces # Null THEN braces ELSE matchFenced(resultText)
    IN  IF jsonMatch # Null
        THEN LET m == jsonMatch[1]
             IN  IF Len(m) >= 2 /\ m[2] # <<>> THEN m[2] ELSE m[1]
        ELSE resultText

\* jsonMatch ? jsonMatch[1] || jsonMatch[0] : resultText
jsonContent(resultText) ==
    LET fenced == matchFenced(resultText)
        jsonMatch == IF fenced # Null THEN fenced ELSE matchBraces(resultText)
    IN  IF jsonMatch # Null
        THEN LET m == jsonMatch[1]
             IN  IF Len(m) >= 2 /\ m[2] # <<>> THEN m[2] ELSE m[1]
        ELSE resultText

\* Tokens that are one member of a JSON object, and the value of the member
MemberTokens == {"\"issues\":[]", "\"issues\":[1]"}
MemberValue(token) == IF token = "\"issues\":[]" THEN <<>> ELSE <<1>>

\* JSON.parse on the tokens of ReplyTexts: "{", "}" is the object without
\* members, "{", member, "}" the object with the member issues; anything else
\* throws
JSONparse(text) ==
    IF text = <<"{", "}">>
    THEN [threw |-> FALSE, value |-> Some(<<>>)]
    ELSE IF /\ Len(text) = 3
            /\ text[1] = "{"
            /\ text[2] \in MemberTokens
            /\ text[3] = "}"
    THEN [threw |-> FALSE, value |-> Some([issues |-> MemberValue(text[2])])]
    ELSE [threw |-> TRUE, value |-> Null]

-----------------------------------------------------------------------------
(* Credential Store (App.tsx:115-128, 214-217, 391) *)

\* useEffect(() => { if (apiKey) localStorage.setItem('deepseekApiKey', apiKey) },
\* [apiKey]): the entry after the effect has run for credential key
saveApiKey(key, entry) == IF key # "" THEN Some(key) ELSE entry

\* useEffect(() => { const savedApiKey = localStorage.getItem('deepseekApiKey');
\* if (savedApiKey) setApiKey(savedApiKey) }, []): the credential after mount
loadApiKey(entry) == IF entry # Null /\ entry[1] # "" THEN entry[1] ELSE ""

\* <Input value={apiKey} onChange={(e) => setApiKey(e.target.value)} />
onChangeApiKey(value) ==
    /\ value # apiKey
    /\ apiKey' = value
    /\ storage' = saveApiKey(value, storage)
    /\ UNCHANGED <<fileVars, analysisVars, download>>

\* Mutant of handleClearApiKey: localStorage.removeItem is missing
handleClearApiKeyKeepsEntry ==
    /\ apiKey' = ""
    /\ storage' = saveApiKey("", storage)
    /\ UNCHANGED <<fileVars, analysisVars, download>>

handleClearApiKey ==
    /\ apiKey' = ""
    /\ storage' = saveApiKey("", Null)
    /\ UNCHANGED <<fileVars, analysisVars, download>>

-----------------------------------------------------------------------------
(* File Intake (App.tsx:130-211) *)

\* Mutant of exceedsMaxSize: the limit itself is rejected too
exceedsMaxSizeInclusive(selectedFile) == selectedFile.size >= MAX_FILE_SIZE

\* selectedFile.size > MAX_FILE_SIZE
exceedsMaxSize(selectedFile) == selectedFile.size > MAX_FILE_SIZE

\* Mutant of fileExtension: the part after the first "." instead of the last
fileExtensionFirstDot(selectedFile) ==
    LET parts == split(selectedFile.name, ".")
    IN  <<".">> \o toLowerCase(IF Len(parts) >= 2 THEN parts[2] ELSE parts[1])

\* Mutant of fileExtension: the letter case of the name is kept
fileExtensionCaseSensitive(selectedFile) ==
    <<".">> \o pop(split(selectedFile.name, "."))

\* `.${selectedFile.name.split('.').pop()?.toLowerCase()}`
fileExtension(selectedFile) ==
    <<".">> \o toLowerCase(pop(split(selectedFile.name, ".")))

\* fileExtension of each file the user can select, computed once
fileExtensions == [selectedFile \in Files |-> fileExtension(selectedFile)]

\* !Object.keys(SUPPORTED_EXTENSIONS).includes(fileExtension)
unsupported(selectedFile) == ~includes(ObjectKeys, fileExtensions[selectedFile])

\* Mutant of handleFileChange: a failed validation also discards the file that
\* was installed before
handleFileChangeDiscards(selectedFile) ==
    IF exceedsMaxSize(selectedFile) \/ unsupported(selectedFile)
    THEN /\ fileError' = IF exceedsMaxSize(selectedFile)
                         THEN SizeErrorMessage ELSE UnsupportedMessage
         /\ file' = Null
         /\ UNCHANGED <<fileContent, fileLanguage, readers>>
         /\ UNCHANGED <<keyVars, analysisVars, download>>
    ELSE /\ BagCardinality(readers) < MaxReaders
         /\ fileError' = <<>>
         /\ file' = Some(selectedFile)
         /\ fileLanguage' = LanguageOf(fileExtensions[selectedFile])
         /\ readers' = readers (+) SetToBag({selectedFile})
         /\ UNCHANGED fileContent
         /\ UNCHANGED <<keyVars, analysisVars, download>>

\* handleFileChange, called by handleDrop and handleInputChange with the first
\* file dropped or picked
handleFileChange(selectedFile) ==
    IF exceedsMaxSize(selectedFile)
    THEN /\ fileError' = SizeErrorMessage
         /\ UNCHANGED <<file, fileContent, fileLanguage, readers>>
         /\ UNCHANGED <<keyVars, analysisVars, download>>
    ELSE IF unsupported(selectedFile)
    THEN /\ fileError' = UnsupportedMessage
         /\ UNCHANGED <<file, fileContent, fileLanguage, readers>>
         /\ UNCHANGED <<keyVars, analysisVars, download>>
    ELSE /\ BagCardinality(readers) < MaxReaders
         /\ fileError' = <<>>
         /\ file' = Some(selectedFile)
         /\ fileLanguage' = LanguageOf(fileExtensions[selectedFile])
         /\ readers' = readers (+) SetToBag({selectedFile})
         /\ UNCHANGED fileContent
         /\ UNCHANGED <<keyVars, analysisVars, download>>

\* reader.onload = (e) => { setFileContent(e.target?.result as string) }
readerOnload(selectedFile) ==
    /\ BagIn(selectedFile, readers)
    /\ readers' = readers (-) SetToBag({selectedFile})
    /\ fileContent' = selectedFile.text
    /\ UNCHANGED <<file, fileLanguage, fileError>>
    /\ UNCHANGED <<keyVars, analysisVars, download>>

\* reader.onerror = () => { setFileError('Error reading file') }
readerOnerror(selectedFile) ==
    /\ BagIn(selectedFile, readers)
    /\ readers' = readers (-) SetToBag({selectedFile})
    /\ fileError' = ReadErrorMessage
    /\ UNCHANGED <<file, fileContent, fileLanguage>>
    /\ UNCHANGED <<keyVars, analysisVars, download>>

\* Mutant of handleClearFile: the analysis error is not reset
handleClearFileKeepsError ==
    /\ file # Null
    /\ file' = Null
    /\ fileContent' = ""
    /\ fileLanguage' = ""
    /\ analysisResults' = Null
    /\ analyzedContent' = ""
    /\ lastResultText' = Null
    /\ UNCHANGED <<fileError, readers, isAnalyzing, requests, analysisError>>
    /\ UNCHANGED <<keyVars, download>>

\* Mutant of handleClearFile: the file error is reset too
handleClearFileResetsFileError ==
    /\ file # Null
    /\ file' = Null
    /\ fileContent' = ""
    /\ fileLanguage' = ""
    /\ fileError' = <<>>
    /\ analysisResults' = Null
    /\ analysisError' = <<>>
    /\ analyzedContent' = ""
    /\ lastResultText' = Null
    /\ UNCHANGED <<readers, isAnalyzing, requests>>
    /\ UNCHANGED <<keyVars, download>>

\* The Clear button of the file row, rendered only when file is set ({file && ...})
handleClearFile ==
    /\ file # Null
    /\ file' = Null
    /\ fileContent' = ""
    /\ fileLanguage' = ""
    /\ analysisResults' = Null
    /\ analysisError' = <<>>
    /\ analyzedContent' = ""
    /\ lastResultText' = Null
    /\ UNCHANGED <<fileError, readers, isAnalyzing, requests>>
    /\ UNCHANGED <<keyVars, download>>

-----------------------------------------------------------------------------
(* Analysis Client (App.tsx:219-313, 492-496) *)

\* The sequence without its i-th element
RemoveAt(q, i) == SubSeq(q, 1, i - 1) \o SubSeq(q, i + 1, Len(q))

\* Mutant of analyzeDisabled: the button ignores the analyzing flag
analyzeDisabledIgnoresFlag == fileContent = "" \/ apiKey = ""

\* <Button onClick={analyzeCode} disabled={!fileContent || !apiKey || isAnalyzing}>
analyzeDisabled == fileContent = "" \/ apiKey = "" \/ isAnalyzing

\* Mutant of analyzeCode: the text is checked before the credential
analyzeCodeFileFirst ==
    IF fileContent = ""
    THEN /\ analysisError' = MissingFileMessage
         /\ UNCHANGED <<isAnalyzing, analysisResults, requests, analyzedContent,
                        lastResultText>>
         /\ UNCHANGED <<keyVars, fileVars, download>>
    ELSE IF apiKey = ""
    THEN /\ analysisError' = MissingKeyMessage
         /\ UNCHANGED <<isAnalyzing, analysisResults, requests, analyzedContent,
                        lastResultText>>
         /\ UNCHANGED <<keyVars, fileVars, download>>
    ELSE /\ Len(requests) < MaxRequests
         /\ isAnalyzing' = TRUE
         /\ analysisError' = <<>>
         /\ analysisResults' = Null
         /\ analyzedContent' = ""
         /\ lastResultText' = Null
         /\ requests' = Append(requests,
                [await |-> "fetch",
                 url |-> "https://api.deepseek.com/v1/chat/completions",
                 authorization |-> <<"Bearer ", apiKey>>,
                 system |-> fileLanguage,
                 user |-> fileContent])
         /\ UNCHANGED <<keyVars, fileVars, download>>

\* Mutant of analyzeCode: the second check looks at the selected file
\* instead of its text
analyzeCodeChecksFile ==
    IF apiKey = ""
    THEN /\ analysisError' = MissingKeyMessage
         /\ UNCHANGED <<isAnalyzing, analysisResults, requests, analyzedContent,
                        lastResultText>>
         /\ UNCHANGED <<keyVars, fileVars, download>>
    ELSE IF file = Null
    THEN /\ analysisError' = MissingFileMessage
         /\ UNCHANGED <<isAnalyzing, analysisResults, requests, analyzedContent,
                        lastResultText>>
         /\ UNCHANGED <<keyVars, fileVars, download>>
    ELSE /\ Len(requests) < MaxRequests
         /\ isAnalyzing' = TRUE
         /\ analysisError' = <<>>
         /\ analysisResults' = Null
         /\ analyzedContent' = ""
         /\ lastResultText' = Null
         /\ requests' = Append(requests,
                [await |-> "fetch",
                 url |-> "https://api.deepseek.com/v1/chat/completions",
                 authorization |-> <<"Bearer ", apiKey>>,
                 system |-> fileLanguage,
                 user |-> fileContent])
         /\ UNCHANGED <<keyVars, fileVars, download>>

\* Mutant of analyzeCode: the system message holds the credential
analyzeCodeKeyInBody ==
    IF apiKey = ""
    THEN /\ analysisError' = MissingKeyMessage
         /\ UNCHANGED <<isAnalyzing, analysisResults, requests, analyzedContent,
                        lastResultText>>
         /\ UNCHANGED <<keyVars, fileVars, download>>
    ELSE IF fileContent = ""
    THEN /\ analysisError' = MissingFileMessage
         /\ UNCHANGED <<isAnalyzing, analysisResults, requests, analyzedContent,
                        lastResultText>>
         /\ UNCHANGED <<keyVars, fileVars, download>>
    ELSE /\ Len(requests) < MaxRequests
         /\ isAnalyzing' = TRUE
         /\ analysisError' = <<>>
         /\ analysisResults' = Null
         /\ analyzedContent' = ""
         /\ lastResultText' = Null
         /\ requests' = Append(requests,
                [await |-> "fetch",
                 url |-> "https://api.deepseek.com/v1/chat/completions",
                 authorization |-> <<"Bearer ", apiKey>>,
                 system |-> apiKey,
                 user |-> fileContent])
         /\ UNCHANGED <<keyVars, fileVars, download>>

\* Mutant of analyzeCode: setAnalysisResults(null) is missing
analyzeCodeKeepsResults ==
    IF apiKey = ""
    THEN /\ analysisError' = MissingKeyMessage
         /\ UNCHANGED <<isAnalyzing, analysisResults, requests, analyzedContent,
                        lastResultText>>
         /\ UNCHANGED <<keyVars, fileVars, download>>
    ELSE IF fileContent = ""
    THEN /\ analysisError' = MissingFileMessage
         /\ UNCHANGED <<isAnalyzing, analysisResults, requests, analyzedContent,
                        lastResultText>>
         /\ UNCHANGED <<keyVars, fileVars, download>>
    ELSE /\ Len(requests) < MaxRequests
         /\ isAnalyzing' = TRUE
         /\ analysisError' = <<>>
         /\ requests' = Append(requests,
                [await |-> "fetch",
                 url |-> "https://api.deepseek.com/v1/chat/completions",
                 authorization |-> <<"Bearer ", apiKey>>,
                 system |-> fileLanguage,
                 user |-> fileContent])
         /\ UNCHANGED <<keyVars, fileVars, download, analysisResults, analyzedContent,
                        lastResultText>>

\* Mutant of analyzeCode: setAnalysisError('') is missing
analyzeCodeKeepsError ==
    IF apiKey = ""
    THEN /\ analysisError' = MissingKeyMessage
         /\ UNCHANGED <<isAnalyzing, analysisResults, requests, analyzedContent,
                        lastResultText>>
         /\ UNCHANGED <<keyVars, fileVars, download>>
    ELSE IF fileContent = ""
    THEN /\ analysisError' = MissingFileMessage
         /\ UNCHANGED <<isAnalyzing, analysisResults, requests, analyzedContent,
                        lastResultText>>
         /\ UNCHANGED <<keyVars, fileVars, download>>
    ELSE /\ Len(requests) < MaxRequests
         /\ isAnalyzing' = TRUE
         /\ analysisResults' = Null
         /\ analyzedContent' = ""
         /\ lastResultText' = Null
         /\ requests' = Append(requests,
                [await |-> "fetch",
                 url |-> "https://api.deepseek.com/v1/chat/completions",
                 authorization |-> <<"Bearer ", apiKey>>,
                 system |-> fileLanguage,
                 user |-> fileContent])
         /\ UNCHANGED <<keyVars, fileVars, download, analysisError>>

\* analyzeCode up to its first await: the precondition checks, the three state
\* updates and the call of fetch, whose arguments hold the credential, the
\* language label and the text of the render the handler was created in
analyzeCode ==
    IF apiKey = ""
    THEN /\ analysisError' = MissingKeyMessage
         /\ UNCHANGED <<isAnalyzing, analysisResults, requests, analyzedContent,
                        lastResultText>>
         /\ UNCHANGED <<keyVars, fileVars, download>>
    ELSE IF fileContent = ""
    THEN /\ analysisError' = MissingFileMessage
         /\ UNCHANGED <<isAnalyzing, analysisResults, requests, analyzedContent,
                        lastResultText>>
         /\ UNCHANGED <<keyVars, fileVars, download>>
    ELSE /\ Len(requests) < MaxRequests
         /\ isAnalyzing' = TRUE
         /\ analysisError' = <<>>
         /\ analysisResults' = Null
         /\ analyzedContent' = ""
         /\ lastResultText' = Null
         /\ requests' = Append(requests,
                [await |-> "fetch",
                 url |-> "https://api.deepseek.com/v1/chat/completions",
                 authorization |-> <<"Bearer ", apiKey>>,
                 system |-> fileLanguage,
                 user |-> fileContent])
         /\ UNCHANGED <<keyVars, fileVars, download>>

\* A click on the Analyze button, which a disabled button does not deliver
clickAnalyze ==
    /\ ~analyzeDisabled
    /\ analyzeCode

\* Mutant of fetchSettled: a fetch that failed is issued again
fetchSettledRetries(i, outcome) ==
    /\ i \in 1..Len(requests)
    /\ requests[i].await = "fetch"
    /\ IF outcome.kind = "response" /\ ok(outcome)
       THEN /\ requests' = [requests EXCEPT ![i].await = "json"]
            /\ UNCHANGED <<isAnalyzing, analysisResults, analysisError,
                           analyzedContent, lastResultText>>
       ELSE /\ analysisError' = AnalyzeErrorMessage(
                    IF outcome.kind = "response"
                    THEN ApiErrorMessage(outcome)
                    ELSE outcome.message)
            /\ UNCHANGED <<isAnalyzing, requests, analysisResults, analyzedContent,
                           lastResultText>>
    /\ UNCHANGED <<keyVars, fileVars, download>>

\* The continuation of `await fetch(...)` of request i: a rejection and a
\* response that is not ok go to the outer catch and the finally clause; an ok
\* response goes on to `await response.json()`
fetchSettled(i, outcome) ==
    /\ i \in 1..Len(requests)
    /\ requests[i].await = "fetch"
    /\ IF outcome.kind = "response" /\ ok(outcome)
       THEN /\ requests' = [requests EXCEPT ![i].await = "json"]
            /\ UNCHANGED <<isAnalyzing, analysisResults, analysisError,
                           analyzedContent, lastResultText>>
       ELSE /\ analysisError' = AnalyzeErrorMessage(
                    IF outcome.kind = "response"
                    THEN ApiErrorMessage(outcome)
                    ELSE outcome.message)
            /\ isAnalyzing' = FALSE
            /\ requests' = RemoveAt(requests, i)
            /\ UNCHANGED <<analysisResults, analyzedContent, lastResultText>>
    /\ UNCHANGED <<keyVars, fileVars, download>>

\* Mutant of jsonSettled: setIsAnalyzing(false) is the last statement of the
\* outer try instead of a finally clause, so a rejection skips it
jsonSettledWithoutFinally(i, body) ==
    /\ i \in 1..Len(requests)
    /\ requests[i].await = "json"
    /\ IF body.kind = "invalid"
       THEN /\ analysisError' = AnalyzeErrorMessage(body.message)
            /\ UNCHANGED <<analysisResults, analyzedContent, lastResultText, isAnalyzing>>
       ELSE IF ~body.envelope
       THEN /\ analysisError' = ParseErrorMessage
            /\ isAnalyzing' = FALSE
            /\ UNCHANGED <<analysisResults, analyzedContent, lastResultText>>
       ELSE LET parsedResults == JSONparse(jsonContent(body.content))
            IN  /\ lastResultText' = Some(body.content)
                /\ IF parsedResults.threw
                   THEN /\ analysisError' = ParseErrorMessage
                        /\ isAnalyzing' = FALSE
                        /\ UNCHANGED <<analysisResults, analyzedContent>>
                   ELSE /\ analysisResults' = parsedResults.value
                        /\ analyzedContent' = IF parsedResults.value = Null
                                              THEN "" ELSE requests[i].user
                        /\ isAnalyzing' = FALSE
                        /\ UNCHANGED analysisError
    /\ requests' = RemoveAt(requests, i)
    /\ UNCHANGED <<keyVars, fileVars, download>>

\* Mutant of jsonSettled: there is no inner try, so an error thrown while the
\* reply is taken apart goes to the outer catch
jsonSettledWithoutInnerTry(i, body) ==
    /\ i \in 1..Len(requests)
    /\ requests[i].await = "json"
    /\ IF body.kind = "invalid"
       THEN /\ analysisError' = AnalyzeErrorMessage(body.message)
            /\ UNCHANGED <<analysisResults, analyzedContent, lastResultText>>
       ELSE IF ~body.envelope
       THEN /\ analysisError' = AnalyzeErrorMessage(<<"Unexpected token in JSON">>)
            /\ UNCHANGED <<analysisResults, analyzedContent, lastResultText>>
       ELSE LET parsedResults == JSONparse(jsonContent(body.content))
            IN  /\ lastResultText' = Some(body.content)
                /\ IF parsedResults.threw
                   THEN /\ analysisError' = AnalyzeErrorMessage(<<"Unexpected token in JSON">>)
                        /\ UNCHANGED <<analysisResults, analyzedContent>>
                   ELSE /\ analysisResults' = parsedResults.value
                        /\ analyzedContent' = IF parsedResults.value = Null
                                              THEN "" ELSE requests[i].user
                        /\ UNCHANGED analysisError
    /\ isAnalyzing' = FALSE
    /\ requests' = RemoveAt(requests, i)
    /\ UNCHANGED <<keyVars, fileVars, download>>

\* Mutant of jsonSettled: data.choices[0].message.content is read before the
\* inner try, so a missing envelope goes to the outer catch
jsonSettledEnvelopeOutsideTry(i, body) ==
    /\ i \in 1..Len(requests)
    /\ requests[i].await = "json"
    /\ IF body.kind = "invalid"
       THEN /\ analysisError' = AnalyzeErrorMessage(body.message)
            /\ UNCHANGED <<analysisResults, analyzedContent, lastResultText>>
       ELSE IF ~body.envelope
       THEN /\ analysisError' = AnalyzeErrorMessage(
                    <<"Cannot read properties of undefined">>)
            /\ UNCHANGED <<analysisResults, analyzedContent, lastResultText>>
       ELSE LET parsedResults == JSONparse(jsonContent(body.content))
            IN  /\ lastResultText' = Some(body.content)
                /\ IF parsedResults.threw
                   THEN /\ analysisError' = ParseErrorMessage
                        /\ UNCHANGED <<analysisResults, analyzedContent>>
                   ELSE /\ analysisResults' = parsedResults.value
                        /\ analyzedContent' = IF parsedResults.value = Null
                                              THEN "" ELSE requests[i].user
                        /\ UNCHANGED analysisError
    /\ isAnalyzing' = FALSE
    /\ requests' = RemoveAt(requests, i)
    /\ UNCHANGED <<keyVars, fileVars, download>>

\* The continuation of `await response.json()` of request i: a rejection goes to
\* the outer catch; data goes through the inner try, whose catch sets the parse
\* error; the finally clause runs in each case
jsonSettled(i, body) ==
    /\ i \in 1..Len(requests)
    /\ requests[i].await = "json"
    /\ IF body.kind = "invalid"
       THEN /\ analysisError' = AnalyzeErrorMessage(body.message)
            /\ UNCHANGED <<analysisResults, analyzedContent, lastResultText>>
       ELSE IF ~body.envelope
       THEN /\ analysisError' = ParseErrorMessage
            /\ UNCHANGED <<analysisResults, analyzedContent, lastResultText>>
       ELSE LET parsedResults == JSONparse(jsonContent(body.content))
            IN  /\ lastResultText' = Some(body.content)
                /\ IF parsedResults.threw
                   THEN /\ analysisError' = ParseErrorMessage
                        /\ UNCHANGED <<analysisResults, analyzedContent>>
                   ELSE /\ analysisResults' = parsedResults.value
                        /\ analyzedContent' = IF parsedResults.value = Null
                                              THEN "" ELSE requests[i].user
                        /\ UNCHANGED analysisError
    /\ isAnalyzing' = FALSE
    /\ requests' = RemoveAt(requests, i)
    /\ UNCHANGED <<keyVars, fileVars, download>>

-----------------------------------------------------------------------------
(* Export (App.tsx:349-362) *)

\* JSON.stringify(analysisResults, null, 2) as tokens: the braces and, between
\* them, the member issues with its array
JSONstringify(value) ==
    IF value = <<>>
    THEN <<"{", "}">>
    ELSE <<"{", IF value.issues = <<>> THEN "\"issues\": []" ELSE "\"issues\": [1]", "}">>

\* encodeURIComponent on each token of a serialization
EncodedToken(token) ==
    CASE token = "{" -> "%7B"
      [] token = "}" -> "%7D"
      [] token = "\"issues\": []" -> "%22issues%22%3A%20%5B%5D"
      [] token = "\"issues\": [1]" -> "%22issues%22%3A%20%5B1%5D"
encodeURIComponent(text) == [k \in 1..Len(text) |-> EncodedToken(text[k])]

\* `code-review-${file?.name || 'results'}.json`
exportName ==
    <<"code-review-">>
    \o (IF file # Null /\ file[1].name # <<>> THEN file[1].name ELSE <<"results">>)
    \o <<".json">>

\* downloadResults: nothing without a result; otherwise a link element with
\* the data URI of the serialized result and the export name is clicked
downloadResults ==
    IF analysisResults = Null
    THEN UNCHANGED vars
    ELSE /\ download' = Some([href |-> <<"data:application/json;charset=utf-8,">>
                                        \o encodeURIComponent(JSONstringify(analysisResults[1])),
                              download |-> exportName])
         /\ UNCHANGED <<keyVars, fileVars, analysisVars>>

-----------------------------------------------------------------------------
(* The application *)

\* The component after mount with the given persistent entry: every useState
\* initial value, then the two effects of App.tsx:116-128
Mounted(entry) ==
    /\ apiKey = loadApiKey(entry)
    /\ storage = saveApiKey(loadApiKey(entry), entry)
    /\ file = Null
    /\ fileContent = ""
    /\ fileLanguage = ""
    /\ fileError = <<>>
    /\ isAnalyzing = FALSE
    /\ analysisResults = Null
    /\ analysisError = <<>>
    /\ readers = EmptyBag
    /\ requests = <<>>
    /\ analyzedContent = ""
    /\ lastResultText = Null
    /\ download = Null

Init == Mounted(Null)

\* Mutant of reload: the entry is removed once it has been read
reloadRemovesEntry ==
    /\ apiKey' = loadApiKey(storage)
    /\ storage' = Null
    /\ file' = Null
    /\ fileContent' = ""
    /\ fileLanguage' = ""
    /\ fileError' = <<>>
    /\ isAnalyzing' = FALSE
    /\ analysisResults' = Null
    /\ analysisError' = <<>>
    /\ readers' = EmptyBag
    /\ requests' = <<>>
    /\ analyzedContent' = ""
    /\ lastResultText' = Null
    /\ download' = Null

\* The page is loaded again: the component state is lost, pending callbacks and
\* the link element are dropped with the old page, the persistent entry stays
reload ==
    /\ apiKey' = loadApiKey(storage)
    /\ storage' = saveApiKey(loadApiKey(storage), storage)
    /\ file' = Null
    /\ fileContent' = ""
    /\ fileLanguage' = ""
    /\ fileError' = <<>>
    /\ isAnalyzing' = FALSE
    /\ analysisResults' = Null
    /\ analysisError' = <<>>
    /\ readers' = EmptyBag
    /\ requests' = <<>>
    /\ analyzedContent' = ""
    /\ lastResultText' = Null
    /\ download' = Null

fetchSettles == \E i \in 1..MaxRequests, outcome \in FetchOutcomes : fetchSettled(i, outcome)
jsonSettles == \E i \in 1..MaxRequests, body \in BodyOutcomes : jsonSettled(i, body)

Next ==
    \/ \E value \in Keys \cup {""} : onChangeApiKey(value)
    \/ handleClearApiKey
    \/ \E selectedFile \in Files : handleFileChange(selectedFile)
    \/ \E selectedFile \in Files : readerOnload(selectedFile)
    \/ \E selectedFile \in Files : readerOnerror(selectedFile)
    \/ handleClearFile
    \/ clickAnalyze
    \/ fetchSettles
    \/ jsonSettles
    \/ reload

Spec == Init /\ [][Next]_vars

\* Every fetch and every response.json() settles: the transport resolves or
\* rejects each promise
FairSpec == Spec /\ WF_vars(fetchSettles) /\ WF_vars(jsonSettles)

\* analyzeCode invoked as a function while no analysis is going on, whatever
\* the inputs are: the handler's own precondition checks (App.tsx:221-229) are
\* exercised only this way, the button being disabled when an input is missing
directAnalyze ==
    /\ ~isAnalyzing
    /\ analyzeCode

DirectNext ==
    \/ Next
    \/ directAnalyze

DirectSpec == Init /\ [][DirectNext]_vars

\* The application with its export: downloadResults changes no state of the
\* component, the link element it clicks is recorded in download
ExportNext ==
    \/ Next
    \/ downloadResults

ExportSpec == Init /\ [][ExportNext]_vars

-----------------------------------------------------------------------------
(* What the specification says of a file, stated without the code's helpers *)

\* The position of the final "." of a name, 0 when it has none
FinalDot(name) ==
    IF \E i \in 1..Len(name) : name[i] = "."
    THEN CHOOSE i \in 1..Len(name) :
             name[i] = "." /\ \A j \in (i + 1)..Len(name) : name[j] # "."
    ELSE 0

\* The extension of a name: "." and the lowercased text after its final "."
\* (the whole name when it has no ".")
ExtensionOf(name) ==
    <<".">> \o toLowerCase(SubSeq(name, FinalDot(name) + 1, Len(name)))

\* The extension is a key of the Supported Extension Table
InTable(name) ==
    \E i \in 1..Len(SUPPORTED_EXTENSIONS) : SUPPORTED_EXTENSIONS[i][1] = ExtensionOf(name)

\* The labels the table maps the name's extension to
TableLabels(name) ==
    {SUPPORTED_EXTENSIONS[i][2] : i \in {k \in 1..Len(SUPPORTED_EXTENSIONS) :
                                            SUPPORTED_EXTENSIONS[k][1] = ExtensionOf(name)}}

\* The files of Files whose extension is not a key of the table
UnsupportedFiles == {f \in Files : ~InTable(f.name)}

\* The files of Files that pass both validations
ValidFiles == {f \in Files : f.size <= 5242880 /\ InTable(f.name)}

\* The labels the table gives each valid file
ValidLabels == [f \in ValidFiles |-> TableLabels(f.name)]

-----------------------------------------------------------------------------
(* Claims *)

\* C1: in the state right after handleClearFile, whatever came before, there is
\* no file, no text, no language label, no Analysis Result and no analysis error.
C1_ClearResets ==
    [][handleClearFile =>
          /\ file' = Null
          /\ fileContent' = ""
          /\ fileLanguage' = ""
          /\ analysisResults' = Null
          /\ analysisError' = <<>>]_vars

\* C1 witness: the file was cleared while a request was in flight (only
\* handleClearFile unsets the file and keeps the request)
C1_Witness ==
    /\ requests # <<>>
    /\ file = Null
    /\ fileContent = ""
    /\ analysisResults = Null

\* C2: an Analysis Result is never present while the file field is empty.
C2_NoResultWithoutFile == analysisResults # Null => file # Null

\* C3: an ingestion that installs another file while an Analysis Result is
\* displayed clears that result in the same step, so no result is shown next to
\* a file it was not computed from.
C3_NewIngestionClearsResult ==
    [][\A f \in Files :
          (analysisResults # Null /\ handleFileChange(f) /\ file' # file) =>
              analysisResults' = Null]_vars

\* C4: at most one analysis request is in flight.
C4_AtMostOneRequest == Len(requests) <= 1

\* C4 witness: a request is pending while a text and a credential are present,
\* so only the analyzing flag keeps the Analyze button from issuing a second one
C4_Witness ==
    /\ Len(requests) = 1
    /\ fileContent # ""
    /\ apiKey # ""
    /\ analyzeDisabled

\* C5: the analyzing flag is set exactly while a request is in flight, and once
\* set it is eventually cleared, however the request completes.
C5_FlagFollowsRequest ==
    /\ [](isAnalyzing <=> requests # <<>>)
    /\ (isAnalyzing ~> ~isAnalyzing)

\* C5 witness: a request has ended in the parse error, the flag is cleared and
\* the Analyze button is enabled again
C5_Witness ==
    /\ analysisError = ParseErrorMessage
    /\ ~isAnalyzing
    /\ ~analyzeDisabled

C8_FailedValidationFrame ==
    [][\A f \in Files \ ValidFiles :
          handleFileChange(f) =>
              /\ fileError' \in {SizeErrorMessage, UnsupportedMessage}
              /\ (fileError' = SizeErrorMessage) <=> (f.size > 5242880)
              /\ UNCHANGED <<file, fileContent, fileLanguage, readers>>
              /\ UNCHANGED <<analysisResults, analysisError, isAnalyzing, requests>>
              /\ UNCHANGED <<apiKey, storage>>]_vars

\* C8 witness: a validation error beside the file, text and result of before
C8_Witness ==
    /\ fileError \in {SizeErrorMessage, UnsupportedMessage}
    /\ file # Null
    /\ fileContent # ""
    /\ analysisResults # Null

\* C9: ingesting a valid file sets the language label to the table's value for
\* the lowercased extension.
C9_LanguageFromTable ==
    [][\A f \in ValidFiles :
          handleFileChange(f) =>
              (file' = Some(f) /\ ValidLabels[f] = {fileLanguage'})]_vars

\* C9 witness: a file with an upper-case extension is installed with its label
C9_Witness ==
    /\ file # Null
    /\ file[1].name = <<"B", ".", "P", "Y">>
    /\ fileLanguage = "Python"

\* C10: file, language label and text are all unset or all of the same file.
C10_RecordAtomic ==
    \/ (file = Null /\ fileLanguage = "" /\ fileContent = "")
    \/ (/\ file # Null
        /\ file[1] \in ValidFiles
        /\ ValidLabels[file[1]] = {fileLanguage}
        /\ fileContent = file[1].text)

\* C11: when the decode of a validated file fails, the state has the 'Error
\* reading file' error and no Ingested File: no file, no language label, no text.
C11_DecodeFailureDiscards ==
    [][\A f \in Files :
          readerOnerror(f) =>
              /\ fileError' = ReadErrorMessage
              /\ file' = Null
              /\ fileLanguage' = ""
              /\ fileContent' = ""]_vars

\* C12: analyzeCode with no credential sends no request, does not touch the
\* analyzing flag, and sets exactly the missing-API-key error, whatever the
\* file state is.
C12_NoCredentialNoRequest ==
    [][(apiKey = "" /\ analyzeCode) =>
          /\ requests' = requests
          /\ isAnalyzing' = isAnalyzing
          /\ analysisError' = MissingKeyMessage]_vars

\* analyzeCode has met an empty credential while a text was loaded
C12_Witness ==
    /\ apiKey = ""
    /\ fileContent # ""
    /\ analysisError = MissingKeyMessage

\* C13: analyzeCode with a credential but no text (none selected, or the text is
\* empty) sends no request, does not touch the analyzing flag, and sets exactly
\* the missing-file error.
C13_NoTextNoRequest ==
    [][(apiKey # "" /\ fileContent = "" /\ analyzeCode) =>
          /\ requests' = requests
          /\ isAnalyzing' = isAnalyzing
          /\ analysisError' = MissingFileMessage]_vars

\* analyzeCode has met a credential and a selected file whose text is empty
C13_Witness ==
    /\ apiKey # ""
    /\ file # Null
    /\ fileContent = ""
    /\ analysisError = MissingFileMessage

\* A message has the fragment s
HasFragment(message, s) == \E k \in 1..Len(message) : message[k] = s

\* The responses whose status is outside 200..299
NonSuccessResponses ==
    {o \in FetchOutcomes : o.kind = "response" /\ o.status \notin 200..299}

\* C14: for every response whose status is not 2xx, the analysis sets an error
\* that carries the status code and the reason phrase (for status 500 it has
\* "500"), ends without going on to read the body, and leaves the result unset.
C14_NonSuccessIsTransportError ==
    [][\A i \in 1..MaxRequests, o \in NonSuccessResponses :
          fetchSettled(i, o) =>
              /\ HasFragment(analysisError', ToString(o.status))
              /\ HasFragment(analysisError', o.statusText)
              /\ o.status = 500 => HasFragment(analysisError', "500")
              /\ requests' = RemoveAt(requests, i)
              /\ analysisResults' = Null]_vars

\* An analysis has ended on a 500 response and shows its status and reason
C14_Witness ==
    /\ HasFragment(analysisError, "500")
    /\ HasFragment(analysisError, "Internal Server Error")
    /\ requests = <<>>
    /\ ~isAnalyzing

-----------------------------------------------------------------------------
(* What the specification says of a reply text, stated without the code's
   helpers *)

\* A well-formed JSON object: braces around at most one member
WellFormedObject(s) ==
    \/ s = <<"{", "}">>
    \/ Len(s) = 3 /\ s[1] = "{" /\ s[2] \in MemberTokens /\ s[3] = "}"

\* The reply texts that hold no well-formed JSON span
ProseReplies ==
    {t \in ReplyTexts :
        \A i \in 1..Len(t), j \in 1..Len(t) : ~WellFormedObject(SubSeq(t, i, j))}

\* The data response.json() resolves with when the reply text is t
Reply(t) == [kind |-> "data", envelope |-> TRUE, content |-> t]

\* The messages of the Transport errors: a rejected fetch, a response that is
\* not 2xx, a body that is not JSON
TransportErrors ==
    {AnalyzeErrorMessage(o.message) : o \in {x \in FetchOutcomes : x.kind = "reject"}}
    \cup {AnalyzeErrorMessage(ApiErrorMessage(o)) :
              o \in {x \in FetchOutcomes : x.kind = "response"}}
    \cup {AnalyzeErrorMessage(b.message) : b \in {x \in BodyOutcomes : x.kind = "invalid"}}

\* C15: for every 2xx response whose reply text holds no well-formed JSON span,
\* the analysis sets the Parse error, which is the message of no Transport
\* error, and leaves the result unset.
C15_ProseIsParseError ==
    [][\A i \in 1..MaxRequests, t \in ProseReplies :
          jsonSettled(i, Reply(t)) =>
              /\ analysisError' = ParseErrorMessage
              /\ analysisError' \notin TransportErrors
              /\ analysisResults' = Null]_vars

\* An analysis has ended on a reply of plain prose
C15_Witness ==
    /\ lastResultText = Some(<<"Here is my review.">>)
    /\ analysisError = ParseErrorMessage
    /\ analysisResults = Null
    /\ ~isAnalyzing

\* The positions of the fences of the first code block labeled json of a text:
\* its opening fence and the first closing fence after it
FirstFence(t) ==
    CHOOSE p \in (1..Len(t)) \X (1..Len(t)) :
        /\ p[1] < p[2]
        /\ t[p[1]] = FenceOpen
        /\ t[p[2]] = FenceClose
        /\ \A k \in 1..(p[1] - 1) :
               ~(t[k] = FenceOpen /\ \E l \in (k + 1)..Len(t) : t[l] = FenceClose)
        /\ \A k \in (p[1] + 1)..(p[2] - 1) : t[k] # FenceClose

\* The reply texts that hold a code block labeled json
FencedReplies ==
    {t \in ReplyTexts :
        \E i \in 1..Len(t), j \in 1..Len(t) :
            i < j /\ t[i] = FenceOpen /\ t[j] = FenceClose}

\* The content of the first code block labeled json of each such text
FencedBlock ==
    [t \in FencedReplies |-> SubSeq(t, FirstFence(t)[1] + 1, FirstFence(t)[2] - 1)]

\* C16: when the reply text holds a code block labeled json, the analysis
\* parses exactly the content of the block, whatever surrounds it, and a block
\* whose issues array is empty gives a result whose issues sequence is empty.
C16_FencedBlockParsed ==
    [][\A i \in 1..MaxRequests, t \in FencedReplies :
          jsonSettled(i, Reply(t)) =>
              /\ analysisResults' = JSONparse(FencedBlock[t]).value
              /\ JSONparse(FencedBlock[t]).threw => analysisError' = ParseErrorMessage
              /\ FencedBlock[t] = <<"{", "\"issues\":[]", "}">> =>
                     /\ analysisResults' # Null
                     /\ analysisResults'[1].issues = <<>>]_vars

\* An analysis has ended on a reply with prose and a brace span around its
\* fenced block, and shows the result of the block
C16_Witness ==
    /\ lastResultText # Null
    /\ lastResultText[1] \in FencedReplies
    /\ \E k \in 1..Len(lastResultText[1]) : lastResultText[1][k] = "now"
    /\ analysisResults = Some([issues |-> <<>>])

\* The number of tokens c among t[i..j]
Count(t, i, j, c) == Cardinality({k \in i..j : t[k] = c})

\* The first top-level brace span of a text: from its first "{" to the "}" that
\* closes it, <<>> when the text has no such span
FirstTopLevelSpan(t) ==
    LET opens == {i \in 1..Len(t) : t[i] = "{"}
    IN  IF opens = {} THEN <<>>
        ELSE LET i == CHOOSE x \in opens : \A y \in opens : x <= y
                 closes == {j \in (i + 1)..Len(t) :
                               t[j] = "}" /\ Count(t, i, j, "{") = Count(t, i, j, "}")}
             IN  IF closes = {} THEN <<>>
                 ELSE SubSeq(t, i, CHOOSE x \in closes : \A y \in closes : x <= y)

\* The payload of each reply text by the three strategies in order: the fenced
\* block, the first top-level brace span, the whole text
Payload ==
    [t \in ReplyTexts |->
        IF t \in FencedReplies THEN FencedBlock[t]
        ELSE IF FirstTopLevelSpan(t) # <<>> THEN FirstTopLevelSpan(t)
        ELSE t]

\* C17: the payload that is parsed is the fenced block labeled json; without
\* one, the first top-level brace span, which ends at the brace closing the
\* first opening brace and not at the last "}" of the text; without either, the
\* whole reply text.
C17_PayloadLocation ==
    [][\A i \in 1..MaxRequests, t \in ReplyTexts :
          jsonSettled(i, Reply(t)) =>
              /\ analysisResults' = JSONparse(Payload[t]).value
              /\ JSONparse(Payload[t]).threw <=> analysisError' = ParseErrorMessage]_vars

\* C18: when an analysis succeeds, the state holds exactly the result parsed
\* from its reply, whatever result or analysis error an earlier analysis left,
\* and no analysis error.
C18_SuccessReplaces ==
    [][\A i \in 1..MaxRequests, t \in ReplyTexts :
          (jsonSettled(i, Reply(t)) /\ ~JSONparse(jsonContent(t)).threw) =>
              /\ analysisResults' # Null
              /\ analysisResults' = JSONparse(jsonContent(t)).value
              /\ analysisError' = <<>>]_vars

\* An analysis has succeeded on a reply with a brace span and shows its result
C18_Witness ==
    /\ lastResultText = Some(<<"Review:", "{", "\"issues\":[1]", "}", "Done.">>)
    /\ analysisResults = Some([issues |-> <<1>>])
    /\ analysisError = <<>>
    /\ ~isAnalyzing

-----------------------------------------------------------------------------
(* The credential and its persistent entry *)

\* C19: for every non-empty value v, after the credential is set to v a fresh
\* load gives the credential v; after the credential is cleared a fresh load
\* gives no credential.
C19_CredentialRoundTrip ==
    [][/\ \A v \in Keys : onChangeApiKey(v) => storage' = Some(v)
       /\ handleClearApiKey => storage' = Null
       /\ reload => /\ apiKey' = IF storage = Null THEN "" ELSE storage[1]
                    /\ storage' = storage]_vars

\* A credential has been set and its entry holds it
C19_Witness ==
    /\ apiKey = "sk-abc"
    /\ storage = Some("sk-abc")

\* C20: after any sequence of credential changes, the edit of the input to the
\* empty string included, the persistent entry equals the credential in memory
\* (no entry, or an empty one, when the credential is empty).
C20_EntryEqualsCredential ==
    \/ storage = Null /\ apiKey = ""
    \/ storage = Some(apiKey)

-----------------------------------------------------------------------------
(* Error states *)

\* C21: in every reachable state a file error is not present together with an
\* installed file.
C21_FileErrorExcludesFile == ~(fileError # <<>> /\ file # Null)

-----------------------------------------------------------------------------
(* Requests and exports *)

\* The fixed remote endpoint
RemoteEndpoint == "https://api.deepseek.com/v1/chat/completions"

\* No credential is a fragment of the text
FreeOfCredential(text) == \A k \in 1..Len(text) : text[k] \notin Keys

\* C23: every request targets the fixed endpoint and carries, as its bearer
\* Authorization header, the credential that was current when the analysis was
\* triggered; the credential is in no other part of a request and in no
\* exported artifact.
C23_CredentialOnlyInBearer ==
    [][/\ clickAnalyze =>
              /\ apiKey \in Keys
              /\ requests' = Append(requests, requests'[Len(requests')])
              /\ requests'[Len(requests')].authorization = <<"Bearer ", apiKey>>
       /\ \A k \in 1..Len(requests') :
              /\ requests'[k].url = RemoteEndpoint
              /\ requests'[k].url \notin Keys
              /\ requests'[k].system \notin Keys
              /\ requests'[k].user \notin Keys
       /\ download' # Null =>
              /\ FreeOfCredential(download'[1].href)
              /\ FreeOfCredential(download'[1].download)]_vars

\* A request with the second credential is in flight after a result obtained
\* with a credential was exported
C23_Witness ==
    /\ download # Null
    /\ requests # <<>>
    /\ requests[1].authorization = <<"Bearer ", "sk-xyz">>
    /\ apiKey = "sk-xyz"

\* C24: an analysis (its start and its completion) and the clearing of the file
\* leave the file error as it was, and an ingestion (accepted or rejected, and
\* the completion of its decode) leaves the analysis error as it was.
C24_UnrelatedErrorsPersist ==
    [][/\ \/ fileError' = fileError
          \/ ~(clickAnalyze \/ fetchSettles \/ jsonSettles \/ handleClearFile)
       /\ \/ analysisError' = analysisError
          \/ ~(\E f \in Files :
                  handleFileChange(f) \/ readerOnload(f) \/ readerOnerror(f))]_vars

\* A rejected ingestion has left the error of an earlier analysis in place
C24_Witness ==
    /\ fileError = SizeErrorMessage
    /\ analysisError # <<>>

\* The number of requests whose fetch has been issued and has not settled
FetchPending(q) == Cardinality({k \in 1..Len(q) : q[k].await = "fetch"})

\* C25: an accepted click on Analyze issues exactly one request, the settling
\* of a fetch ends that fetch without another one being issued, and no other
\* step issues a request: after a failure none is issued until the next click.
C25_NoRetries ==
    [][/\ \/ FetchPending(requests') <= FetchPending(requests)
          \/ /\ clickAnalyze
             /\ requests' = Append(requests, requests'[Len(requests')])
             /\ requests'[Len(requests')].await = "fetch"
       /\ \/ FetchPending(requests') # FetchPending(requests)
          \/ ~fetchSettles]_vars

\* A fetch was rejected: the error is shown, no request is pending and the
\* button is enabled again
C25_Witness ==
    /\ analysisError = AnalyzeErrorMessage(<<"Failed to fetch">>)
    /\ requests = <<>>
    /\ ~analyzeDisabled

\* The name of the valid file with the given text
NameOfText(text) == (CHOOSE f \in ValidFiles : f.text = text).name

\* C26: an export without a result does nothing; with a result it serializes
\* the current result and names the download code-review-<name>.json, <name>
\* being the name of the file the result was produced from, or results when no
\* file is installed.
C26_ExportNaming ==
    [][\/ download' = download
       \/ ~downloadResults
       \/ /\ analysisResults # Null
          /\ download'[1].href =
                 <<"data:application/json;charset=utf-8,">>
                 \o encodeURIComponent(JSONstringify(analysisResults[1]))
          /\ download'[1].download =
                 <<"code-review-">>
                 \o (IF file = Null THEN <<"results">> ELSE NameOfText(analyzedContent))
                 \o <<".json">>]_vars

-----------------------------------------------------------------------------
(* Asynchronous decodes *)

\* C27: once every decode has completed without an error, the installed text
\* is that of the file selected last, in whatever order the decodes completed.
C27_LatestTextWins ==
    (readers = EmptyBag /\ file # Null /\ fileError = <<>>) =>
        fileContent = file[1].text

\* C28: when the file was cleared while a decode was pending, the completion of
\* that decode changes nothing: there is still no file, no text and no new file
\* error, and the Analyze button stays disabled.
C28_ClearCancelsDecode ==
    [][\A f \in Files :
          (file = Null /\ (readerOnload(f) \/ readerOnerror(f))) =>
              /\ file' = Null
              /\ fileContent' = ""
              /\ fileError' = fileError
              /\ analyzeDisabled']_vars

\* C29: the language label in the system message and the text in the user
\* message of every request belong to one and the same ingested file.
C29_RequestOfOneFile ==
    \A k \in 1..Len(requests) :
        \E f \in ValidFiles :
            /\ requests[k].user = f.text
            /\ requests[k].system \in ValidLabels[f]

\* C30: a start of the application leaves the persistent entry as it was,
\* neither removed nor given another value; without an entry the credential
\* stays unset and no entry is created.
C30_StartupKeepsStore ==
    [][reload =>
          /\ storage' = storage
          /\ storage = Null => (apiKey' = "" /\ storage' = Null)]_vars

\* The application as it is after a start that found the entry of the second
\* credential
C30_Witness ==
    /\ storage = Some("sk-xyz")
    /\ apiKey = "sk-xyz"
    /\ file = Null
    /\ fileError = <<>>
    /\ analysisError = <<>>
    /\ requests = <<>>
    /\ readers = EmptyBag

-----------------------------------------------------------------------------
(* Replies without the envelope *)

\* C31: a 2xx response whose body is JSON without choices[0].message.content
\* sets the Parse error, which is the message of no Transport error, leaves the
\* result unset and clears the analyzing flag.
C31_MissingEnvelopeIsParseError ==
    [][\A i \in 1..MaxRequests :
          jsonSettled(i, [kind |-> "data", envelope |-> FALSE]) =>
              /\ analysisError' = ParseErrorMessage
              /\ analysisError' \notin TransportErrors
              /\ analysisResults' = Null
              /\ ~isAnalyzing']_vars

\* An analysis has ended on a body without the envelope: the Parse error is
\* shown though no reply text was ever read
C31_Witness ==
    /\ analysisError = ParseErrorMessage
    /\ lastResultText = Null
    /\ analysisResults = Null
    /\ requests = <<>>
    /\ ~isAnalyzing

====
